---------------------------- MODULE Spec2Model ----------------------------
(***************************************************************************)
(* A model of src/src/lid_functions.py: the header reader lid_header, the  *)
(* section locator parse_lid and the six section extractors masses, atoms, *)
(* bonds, angles, dihedrals and impropers of a LAMMPS input data file.     *)
(*                                                                         *)
(* A file is a sequence of raw lines.  A raw line is a sequence of chunks: *)
(* the chunk " " is a run of whitespace, any other chunk is a maximal run  *)
(* of non-whitespace characters (a word), so no two words are adjacent.    *)
(* Python indexes from 0 and TLA+ from 1: the Python expression lines[i]   *)
(* is lines[i + 1] here, in_data[k][0] is in_data[k + 1][1], and the       *)
(* offsets, counters and slice bounds keep their Python (0-based) values.  *)
(***************************************************************************)
EXTENDS Integers, Sequences, FiniteSets, TLC

VARIABLES
    lines,           \* the content of the file fname, as readlines() gives it
    op,              \* the function called last ("none" before any call)
    pc,              \* "idle", "scan" (inside lid_header's loop), "returned", "raised"
    hpos,            \* lid_header: the number of lines its loop has consumed
    molecular_data,  \* lid_header: the five counts
    types_data,      \* lid_header: the five type counts
    boundary_data,   \* lid_header: the six box slots
    in_data,         \* parse_lid's table (its result, the extractors' local)
    stop_list,       \* extractor: the list of distances `stop` (<<>> when not built)
    start,           \* extractor: the slice's lower bound
    stop,            \* extractor: the slice's upper bound, <<>> for None, <<n>> for n
    data,            \* extractor: the rows returned
    warning          \* extractor: the lines printed

vars == <<lines, op, pc, hpos, molecular_data, types_data, boundary_data,
          in_data, stop_list, start, stop, data, warning>>

-----------------------------------------------------------------------------
(* Bounds of the model.                                                    *)

\* The longest file drawn from LocatorLines.
MaxLines == 3
\* The longest file drawn from HeaderLines.
MaxHeaderLines == 3
\* The most lines before the first keyword of a file in canonical order.
MaxHead == 1
\* The most lines between two keywords of a file in canonical order.
MaxBody == 2

-----------------------------------------------------------------------------
(* Python values and built-ins.                                            *)

\* A value of a header field: the int 0 the lists start with, or a token (a str).
PyInt(n) == [t |-> "int", v |-> ToString(n)]
PyStr(s) == [t |-> "str", v |-> s]

\* The six section keywords, in the order of the table.
sections == <<"Masses", "Atoms", "Bonds", "Angles", "Dihedrals", "Impropers">>
molecular_prop == <<"atoms", "bonds", "angles", "dihedrals", "impropers">>
types_prop == <<"atom", "bond", "angle", "dihedral", "improper">>
boundary_prop == <<"xlo", "xhi", "ylo", "yhi", "zlo", "zhi">>

\* x in s, for a list s.
InList(x, s) == \E i \in 1..Len(s) : s[i] = x

\* s.index(x), 0-based: the first position of x in s.
PyIndex(s, x) == (CHOOSE i \in 1..Len(s) : s[i] = x /\ \A j \in 1..(i - 1) : s[j] # x) - 1

\* str.split(): the words of a raw line, its whitespace dropped.
split(raw) == SelectSeq(raw, LAMBDA c : c # " ")

Min2(a, b) == IF a < b THEN a ELSE b
Max2(a, b) == IF a > b THEN a ELSE b

\* The position a slice bound i stands for in a list of n elements.
SliceBound(i, n) == IF i < 0 THEN Max2(i + n, 0) ELSE Min2(i, n)

\* s[a:b], with b = <<>> for None.
PySlice(s, a, b) ==
    LET n  == Len(s)
        lo == SliceBound(a, n)
        hi == IF b = <<>> THEN n ELSE SliceBound(b[1], n)
    IN  IF lo >= hi THEN <<>> ELSE SubSeq(s, lo + 1, hi)

\* min(s) of a non-empty list of integers.
PyMin(s) == CHOOSE m \in {s[i] : i \in 1..Len(s)} : \A i \in 1..Len(s) : m <= s[i]

\* max(in_data): lists compare lexicographically and every second element is
\* 0, so this is an entry of the greatest offset.
PyMaxEntry(tab) == CHOOSE e \in {tab[i] : i \in 1..Len(tab)} : \A i \in 1..Len(tab) : tab[i][1] <= e[1]

-----------------------------------------------------------------------------
(* parse_lid: the section locator.                                         *)

\* The table before the scan: mas_section, ..., imp_section, each [0, 0].
EmptyTable == [k \in 1..6 |-> <<0, 0>>]

\* Record, keeping the first match: an entry once set is not assigned again.
RecordFirst(tab, k, counter) == IF tab[k][1] = 0 THEN [tab EXCEPT ![k][1] = counter] ELSE tab

\* The assignment xxx_section[0] = counter, for the entry k of the table.
Record(tab, k, counter) == [tab EXCEPT ![k][1] = counter]

\* One pass of parse_lid's loop body over the tokenized line: the if/elif
\* chain over the six keywords.
ParseLine(tab, line, counter) ==
    IF Len(line) >= 1 /\ line[1] = "Masses" THEN Record(tab, 1, counter)
    ELSE IF Len(line) >= 1 /\ line[1] = "Atoms" THEN Record(tab, 2, counter)
    ELSE IF Len(line) >= 1 /\ line[1] = "Bonds" THEN Record(tab, 3, counter)
    ELSE IF Len(line) >= 1 /\ line[1] = "Angles" THEN Record(tab, 4, counter)
    ELSE IF Len(line) >= 1 /\ line[1] = "Dihedrals" THEN Record(tab, 5, counter)
    ELSE IF Len(line) >= 1 /\ line[1] = "Impropers" THEN Record(tab, 6, counter)
    ELSE tab

\* parse_lid's loop from the i-th line of f on: the line is split, matched,
\* and the counter advances whatever the line is.
RECURSIVE ParseFrom(_, _, _, _)
ParseFrom(f, tab, i, counter) ==
    IF i > Len(f) THEN tab
    ELSE ParseFrom(f, ParseLine(tab, split(f[i]), counter), i + 1, counter + 1)

\* parse_lid, numbering the lines from 1.
parse_lid_from_one(f) == ParseFrom(f, EmptyTable, 1, 1)

\* parse_lid(fname), f being the lines of fname: the counter starts at 0.
parse_lid(f) == ParseFrom(f, EmptyTable, 1, 0)

-----------------------------------------------------------------------------
(* The section extractors.                                                 *)

\* The distance the extractors give a table entry that is no later boundary.
\* The source writes 5000000000000, which TLC's 32-bit integers cannot hold:
\* the model takes the greatest integer TLC has, which, like the source's
\* number, is above the distance between any two lines of a file.
Sentinel == 2147483647

\* WarningText, every extractor keeping the text of masses' second line.
WarningTextFatal(k) == <<"Warning: No data available.", "LAMMPS simulation can't run.">>

\* The two lines an extractor prints when its table entry is 0 (k = 1 for
\* masses, ..., 6 for impropers).
WarningText(k) ==
    CASE k = 1 -> <<"Warning: No masses data available.", "LAMMPS simulation can't run.">>
      [] k = 2 -> <<"Warning: No atoms data available.", "LAMMPS simulation can't run.">>
      [] k = 3 -> <<"Warning: No atoms data available.", "LAMMPS simulation may produce wrong results.">>
      [] k = 4 -> <<"Warning: No angles data available.", "LAMMPS simulation may produce wrong results.">>
      [] k = 5 -> <<"Warning: No dihedrals data available.", "LAMMPS simulation may produce wrong results.">>
      [] k = 6 -> <<"Warning: No impropers data available.", "LAMMPS simulation may produce wrong results.">>

\* Distances, an earlier entry counted by its distance instead of the sentinel.
DistancesAbsolute(tab, k) ==
    [e \in 1..6 |->
        IF tab[e][1] - tab[k][1] = 0 THEN Sentinel
        ELSE IF tab[e][1] - tab[k][1] < 0 THEN tab[k][1] - tab[e][1]
        ELSE tab[e][1] - tab[k][1]]

\* The else branch's loop: the list `stop` of distances from entry k.
Distances(tab, k) ==
    [e \in 1..6 |->
        IF tab[e][1] - tab[k][1] = 0 THEN Sentinel
        ELSE IF tab[e][1] - tab[k][1] < 0 THEN Sentinel
        ELSE tab[e][1] - tab[k][1]]

\* AbsentBounds, the slice left open: the whole file is read.
AbsentBoundsOpen == [stop_list |-> <<>>, start |-> 0, stop |-> <<>>]

\* if: the table entry is 0.
AbsentBounds == [stop_list |-> <<>>, start |-> -1, stop |-> <<-1>>]

\* LastBounds, the slice closed at -1: the last line of the file is cut.
LastBoundsCut(tab, k) == [stop_list |-> <<>>, start |-> tab[k][1] + 1, stop |-> <<-1>>]

\* elif: the table entry is the greatest of the table.
LastBounds(tab, k) == [stop_list |-> <<>>, start |-> tab[k][1] + 1, stop |-> <<>>]

\* else: stop is the offset of the entry of the least distance.
NextBounds(tab, k) ==
    LET dist == Distances(tab, k)
        idx  == PyIndex(dist, PyMin(dist))
    IN  [stop_list |-> dist, start |-> tab[k][1] + 1, stop |-> <<tab[idx + 1][1]>>]

\* The if/elif/else of an extractor: the list of distances, start and stop.
Bounds(tab, k) ==
    IF tab[k][1] = 0 THEN AbsentBounds
    ELSE IF tab[k][1] = PyMaxEntry(tab)[1] THEN LastBounds(tab, k)
    ELSE NextBounds(tab, k)

\* The final loop of an extractor: the sliced lines tokenized, the empty ones dropped.
Rows(sliced) ==
    SelectSeq([i \in 1..Len(sliced) |-> split(sliced[i])], LAMBDA line : line # <<>>)

\* The body shared by the six extractors, k being the extractor's table index.
Extract(k, name) ==
    LET tab == parse_lid(lines)
        b   == Bounds(tab, k)
    IN  /\ op' = name
        /\ pc' = "returned"
        /\ in_data' = tab
        /\ warning' = IF tab[k][1] = 0 THEN WarningText(k) ELSE <<>>
        /\ stop_list' = b.stop_list
        /\ start' = b.start
        /\ stop' = b.stop
        /\ data' = Rows(PySlice(lines, b.start, b.stop))
        /\ UNCHANGED <<lines, hpos, molecular_data, types_data, boundary_data>>

masses ==
    /\ pc = "idle"
    /\ Extract(1, "masses")

atoms ==
    /\ pc = "idle"
    /\ Extract(2, "atoms")

bonds ==
    /\ pc = "idle"
    /\ Extract(3, "bonds")

angles ==
    /\ pc = "idle"
    /\ Extract(4, "angles")

dihedrals ==
    /\ pc = "idle"
    /\ Extract(5, "dihedrals")

impropers ==
    /\ pc = "idle"
    /\ Extract(6, "impropers")

\* A call of parse_lid itself.
CallParseLid ==
    /\ pc = "idle"
    /\ op' = "parse_lid"
    /\ pc' = "returned"
    /\ in_data' = parse_lid(lines)
    /\ warning' = <<>>
    /\ stop_list' = <<>>
    /\ start' = 0
    /\ stop' = <<>>
    /\ data' = <<>>
    /\ UNCHANGED <<lines, hpos, molecular_data, types_data, boundary_data>>

-----------------------------------------------------------------------------
(* lid_header: the header reader, one action per pass of its loop.         *)

\* The three lists before the scan.
MolecularInit == [i \in 1..5 |-> PyInt(0)]
TypesInit == [i \in 1..5 |-> PyInt(0)]
BoundaryInit == [i \in 1..6 |-> PyInt(0)]

\* IsSectionLine, asking for a token after the keyword.
IsSectionLineLong(line) == Len(line) >= 2 /\ InList(line[1], sections)

\* The conditions of the if/elif chain, on a tokenized line.
IsCountLine(line) == Len(line) >= 2 /\ InList(line[2], molecular_prop)
IsTypeLine(line) == Len(line) >= 3 /\ InList(line[2], types_prop)
IsBoxLine(line) == Len(line) >= 4 /\ InList(line[3], boundary_prop)
IsSectionLine(line) == Len(line) >= 1 /\ InList(line[1], sections)

\* The tokenized line the loop is at.
HeaderLine == split(lines[hpos + 1])

\* The call: the file is read and the three lists are created.
CallLidHeader ==
    /\ pc = "idle"
    /\ op' = "lid_header"
    /\ pc' = "scan"
    /\ hpos' = 0
    /\ molecular_data' = MolecularInit
    /\ types_data' = TypesInit
    /\ boundary_data' = BoundaryInit
    /\ UNCHANGED <<lines, in_data, stop_list, start, stop, data, warning>>

\* if: the second token is a count label.
HeaderCount ==
    /\ pc = "scan" /\ hpos < Len(lines)
    /\ IsCountLine(HeaderLine)
    /\ molecular_data' =
         [molecular_data EXCEPT ![PyIndex(molecular_prop, HeaderLine[2]) + 1] = PyStr(HeaderLine[1])]
    /\ hpos' = hpos + 1
    /\ UNCHANGED <<lines, op, pc, types_data, boundary_data, in_data, stop_list,
                   start, stop, data, warning>>

\* elif: the second token is a type label.
HeaderType ==
    /\ pc = "scan" /\ hpos < Len(lines)
    /\ ~IsCountLine(HeaderLine)
    /\ IsTypeLine(HeaderLine)
    /\ types_data' =
         [types_data EXCEPT ![PyIndex(types_prop, HeaderLine[2]) + 1] = PyStr(HeaderLine[1])]
    /\ hpos' = hpos + 1
    /\ UNCHANGED <<lines, op, pc, molecular_data, boundary_data, in_data, stop_list,
                   start, stop, data, warning>>

\* elif: the third token is a box label.  The first assignment is made; the
\* second one, to the slot after it, raises IndexError when there is none.
HeaderBox ==
    /\ pc = "scan" /\ hpos < Len(lines)
    /\ ~IsCountLine(HeaderLine) /\ ~IsTypeLine(HeaderLine)
    /\ IsBoxLine(HeaderLine)
    /\ LET i == PyIndex(boundary_prop, HeaderLine[3])
           first == [boundary_data EXCEPT ![i + 1] = PyStr(HeaderLine[1])]
       IN  IF i + 1 < Len(boundary_data)
           THEN /\ boundary_data' = [first EXCEPT ![i + 2] = PyStr(HeaderLine[2])]
                /\ hpos' = hpos + 1
                /\ pc' = pc
           ELSE /\ boundary_data' = first
                /\ hpos' = hpos
                /\ pc' = "raised"
    /\ UNCHANGED <<lines, op, molecular_data, types_data, in_data, stop_list,
                   start, stop, data, warning>>

\* elif: the first token is a section keyword: break, and the function returns.
HeaderBreak ==
    /\ pc = "scan" /\ hpos < Len(lines)
    /\ ~IsCountLine(HeaderLine) /\ ~IsTypeLine(HeaderLine) /\ ~IsBoxLine(HeaderLine)
    /\ IsSectionLine(HeaderLine)
    /\ pc' = "returned"
    /\ UNCHANGED <<lines, op, hpos, molecular_data, types_data, boundary_data,
                   in_data, stop_list, start, stop, data, warning>>

\* No branch matches: the loop goes on to the next line.
HeaderSkip ==
    /\ pc = "scan" /\ hpos < Len(lines)
    /\ ~IsCountLine(HeaderLine) /\ ~IsTypeLine(HeaderLine) /\ ~IsBoxLine(HeaderLine)
    /\ ~IsSectionLine(HeaderLine)
    /\ hpos' = hpos + 1
    /\ UNCHANGED <<lines, op, pc, molecular_data, types_data, boundary_data,
                   in_data, stop_list, start, stop, data, warning>>

\* The loop has consumed every line: the function returns.
HeaderReturn ==
    /\ pc = "scan" /\ hpos >= Len(lines)
    /\ pc' = "returned"
    /\ UNCHANGED <<lines, op, hpos, molecular_data, types_data, boundary_data,
                   in_data, stop_list, start, stop, data, warning>>

-----------------------------------------------------------------------------
(* The files the operations are applied to.                                *)

\* The raw line of the given tokens, one run of whitespace between two.
Raw(toks) == [i \in 1..(2 * Len(toks) - 1) |-> IF i % 2 = 1 THEN toks[(i + 1) \div 2] ELSE " "]

\* Every file of at most n lines drawn from pool.
Files(pool, n) == UNION {[1..m -> pool] : m \in 0..n}

\* Lines for the locator and the extractors: the six keywords (bare, with
\* tokens after them, indented), blank lines, a data row and three near
\* misses (a keyword that is not the first token, another case, a prefix).
LocatorLines ==
    { Raw(<<"Masses">>), Raw(<<"Atoms", "#", "full">>), <<" ">> \o Raw(<<"Bonds">>),
      Raw(<<"Angles">>), Raw(<<"Dihedrals">>), Raw(<<"Impropers">>),
      <<>>, <<" ">>, Raw(<<"1", "2.5">>),
      Raw(<<"1", "Masses">>), Raw(<<"masses">>), Raw(<<"Atom">>) }

\* The first n lines of a section's body: a blank line, then rows.
Body(k, n) == [i \in 1..n |-> IF i = 1 THEN <<>> ELSE Raw(<<ToString(i - 1), ToString(k)>>)]

\* The first h lines before the first keyword: a title, then blank lines.
Preamble(h) == [i \in 1..h |-> IF i = 1 THEN Raw(<<"LAMMPS", "data", "file">>) ELSE <<>>]

\* The sections k..6 in canonical order, section j with nb[j] body lines.
RECURSIVE CanonFrom(_, _)
CanonFrom(k, nb) ==
    IF k > 6 THEN <<>>
    ELSE <<Raw(<<sections[k]>>)>> \o Body(k, nb[k]) \o CanonFrom(k + 1, nb)

\* The files that hold each keyword once, in canonical order.
CanonFiles == {Preamble(h) \o CanonFrom(1, nb) : h \in 0..MaxHead, nb \in [1..6 -> 0..MaxBody]}

\* Lines for the header reader: count, type and box lines (among them one
\* whose label is the last box label), lines too short for their rule, lines
\* that match two rules, and keyword lines.
HeaderLines ==
    { <<>>, Raw(<<"2", "atoms">>), Raw(<<"5", "atoms">>), Raw(<<"3", "impropers">>),
      Raw(<<"1", "atom", "types">>), Raw(<<"4", "improper", "types">>), Raw(<<"1", "atom">>),
      Raw(<<"0.0", "10.0", "xlo", "xhi">>), Raw(<<"1.0", "9.0", "xhi", "ylo">>),
      Raw(<<"-5.0", "5.0", "zlo", "zhi">>), Raw(<<"0.0", "10.0", "zhi", "zlo">>),
      Raw(<<"0.0", "10.0", "xlo">>), Raw(<<"Atoms">>), Raw(<<"Masses", "atoms">>),
      Raw(<<"Angles", "1", "xlo", "xhi">>), Raw(<<"7", "atoms", "xlo", "xhi">>) }

-----------------------------------------------------------------------------
(* The specifications.                                                     *)

\* The state before any call, on the file f.
Start(f) ==
    /\ lines = f
    /\ op = "none"
    /\ pc = "idle"
    /\ hpos = 0
    /\ molecular_data = MolecularInit
    /\ types_data = TypesInit
    /\ boundary_data = BoundaryInit
    /\ in_data = EmptyTable
    /\ stop_list = <<>>
    /\ start = 0
    /\ stop = <<>>
    /\ data = <<>>
    /\ warning = <<>>

\* The locator and the extractors, on short files of any lines and on the
\* files in canonical order.
Init == \E f \in Files(LocatorLines, MaxLines) \cup CanonFiles : Start(f)

Next ==
    \/ CallParseLid
    \/ masses
    \/ atoms
    \/ bonds
    \/ angles
    \/ dihedrals
    \/ impropers

Spec == Init /\ [][Next]_vars

\* The header reader, on short files of header lines.
InitHeader == \E f \in Files(HeaderLines, MaxHeaderLines) : Start(f)

NextHeader ==
    \/ CallLidHeader
    \/ HeaderCount
    \/ HeaderType
    \/ HeaderBox
    \/ HeaderBreak
    \/ HeaderSkip
    \/ HeaderReturn

SpecHeader == InitHeader /\ [][NextHeader]_vars

-----------------------------------------------------------------------------
(* What the claims speak of, read off the file itself.                     *)

\* The tokens of the line of 0-based index i.
TokensAt(i) == split(lines[i + 1])

\* The 0-based indices of the lines whose first token is the keyword of section k.
Occurrences(k) ==
    {i \in 0..(Len(lines) - 1) : Len(TokensAt(i)) >= 1 /\ TokensAt(i)[1] = sections[k]}

SetMax(S) == CHOOSE m \in S : \A x \in S : x <= m
SetMin(S) == CHOOSE m \in S : \A x \in S : m <= x

\* The tokenized non-blank lines of index lo, ..., hi - 1, in order.
RECURSIVE RowsFrom(_, _)
RowsFrom(lo, hi) ==
    IF lo >= hi THEN <<>>
    ELSE (IF TokensAt(lo) = <<>> THEN <<>> ELSE <<TokensAt(lo)>>) \o RowsFrom(lo + 1, hi)

\* The name of the extractor of section k.
Extractor(k) == <<"masses", "atoms", "bonds", "angles", "dihedrals", "impropers">>[k]

\* The extractor of section k has returned.
Extracted(k) == op = Extractor(k) /\ pc = "returned"

\* The offset the table holds for section k.
Offset(k) == in_data[k][1]

\* The table offsets after that of section k.
LaterOffsets(k) == {Offset(e) : e \in {x \in 1..6 : Offset(x) > Offset(k)}}

\* What the two printed lines say of the simulation.
Severity(w) ==
    IF Len(w) = 2 /\ w[2] = "LAMMPS simulation can't run." THEN "fatal"
    ELSE IF Len(w) = 2 /\ w[2] = "LAMMPS simulation may produce wrong results." THEN "advisory"
    ELSE "none"

\* Each keyword is the first token of exactly one line, and the six lines
\* come in the order of the table.
IsCanonical ==
    /\ \A k \in 1..6 : Cardinality(Occurrences(k)) = 1
    /\ \A k \in 1..5 : SetMax(Occurrences(k)) < SetMin(Occurrences(k + 1))

-----------------------------------------------------------------------------
(* The locator and the extractors (specification Spec).                    *)

\* C1: when no line of the file has the keyword of section k as its first
\* token, the table entry of k is 0 after parse_lid and after every
\* extractor, and the extractor of k returns, without raising, no row at
\* all, whatever the other lines are.
C1_MissingSectionIsAbsent ==
    \A k \in 1..6 :
        (pc = "returned" /\ op # "lid_header" /\ Occurrences(k) = {}) =>
            /\ in_data[k] = <<0, 0>>
            /\ (op = Extractor(k) => data = <<>> /\ warning # <<>>)

\* C1's case: bonds has returned on a file with rows and other sections but
\* no Bonds line.
C1_Witness ==
    /\ Extracted(3) /\ Occurrences(3) = {}
    /\ Offset(1) # 0 /\ Offset(2) # 0
    /\ RowsFrom(0, Len(lines)) # <<>>

\* C2: when the table offset of section k is not 0 and no entry is greater,
\* the extractor of k returns the tokenized non-blank lines from offset + 1
\* to the end of the file, through an open slice; and no extractor ever
\* takes the sentinel as the least distance or as a slice bound.
C2_LastSectionRunsToEnd ==
    \A k \in 1..6 :
        Extracted(k) =>
            /\ (Offset(k) # 0 /\ LaterOffsets(k) = {}) =>
                   /\ data = RowsFrom(Offset(k) + 1, Len(lines))
                   /\ start = Offset(k) + 1
                   /\ stop = <<>>
            /\ stop # <<Sentinel>>
            /\ start # Sentinel
            /\ (stop_list # <<>> => PyMin(stop_list) < Sentinel)

\* C2's case: atoms has returned the rows of the last section of a file that
\* ends with a row.
C2_Witness ==
    /\ Extracted(2) /\ Offset(2) # 0 /\ LaterOffsets(2) = {}
    /\ Len(lines) > Offset(2) + 1
    /\ TokensAt(Len(lines) - 1) # <<>>
    /\ data # <<>>

\* C3: when the table offset of section k is not 0 and some entry is
\* greater, the extractor of k returns the tokenized non-blank lines strictly
\* between its offset and the least greater offset; the keyword line of k,
\* the rows and the next keyword line are the non-blank lines of that block
\* of the file, in order.
C3_MiddleSectionRoundTrip ==
    \A k \in 1..6 :
        (Extracted(k) /\ Offset(k) # 0 /\ LaterOffsets(k) # {}) =>
            LET next == SetMin(LaterOffsets(k))
            IN  /\ data = RowsFrom(Offset(k) + 1, next)
                /\ TokensAt(Offset(k))[1] = sections[k]
                /\ InList(TokensAt(next)[1], sections)
                /\ <<TokensAt(Offset(k))>> \o data \o <<TokensAt(next)>>
                       = RowsFrom(Offset(k), next + 1)

\* C3's case: masses has returned rows of a block that also holds a blank
\* line, another section standing before it in the file.
C3_Witness ==
    /\ Extracted(1) /\ Offset(1) # 0 /\ LaterOffsets(1) # {}
    /\ data # <<>>
    /\ Len(data) < SetMin(LaterOffsets(1)) - Offset(1) - 1

\* C4: parse_lid numbers the lines from 0, blank ones included, and the
\* entry of each keyword is the index of the last line whose first token is
\* that keyword, or 0 when there is none; on a file in canonical order the
\* offsets increase strictly and are the keyword lines' indices.
C4_LocatorKeepsLastOccurrence ==
    (op = "parse_lid" /\ pc = "returned") =>
        /\ \A k \in 1..6 :
               in_data[k] = <<IF Occurrences(k) = {} THEN 0 ELSE SetMax(Occurrences(k)), 0>>
        /\ IsCanonical =>
               /\ \A k \in 1..5 : Offset(k) < Offset(k + 1)
               /\ \A k \in 1..6 : Occurrences(k) = {Offset(k)}

\* C4's case: parse_lid has returned on a file in canonical order with a
\* line before Masses and lines between the keywords.
C4_Witness ==
    /\ op = "parse_lid" /\ pc = "returned"
    /\ IsCanonical
    /\ Offset(1) > 0
    /\ Offset(6) > Offset(1) + 5

\* C7: an extractor whose table entry is 0 prints a warning that is fatal
\* for masses and atoms and advisory for the other four, and returns no
\* row; an extractor whose table entry is not 0 prints nothing.
C7_WarningSeverity ==
    \A k \in 1..6 :
        Extracted(k) =>
            IF Offset(k) = 0
            THEN /\ Severity(warning) = (IF k \in {1, 2} THEN "fatal" ELSE "advisory")
                 /\ data = <<>>
            ELSE warning = <<>>

\* C7's case: bonds has returned on a file whose only sections are Masses
\* and Atoms.
C7_Witness ==
    /\ Extracted(3)
    /\ Offset(1) # 0 /\ Offset(2) # 0
    /\ \A k \in 3..6 : Occurrences(k) = {}
    /\ Severity(warning) = "advisory"

\* C8 as stated: each entry of parse_lid's table is the index of the first
\* line whose first token is the keyword.
C8_LocatorKeepsFirstOccurrence ==
    (op = "parse_lid" /\ pc = "returned") =>
        \A k \in 1..6 : Occurrences(k) # {} => Offset(k) = SetMin(Occurrences(k))

\* C8 as amended: when a keyword is the first token of several lines, the
\* entry of parse_lid's table is the index of the last of them, and so not
\* that of the first.
C8_DuplicateKeepsLast ==
    (op = "parse_lid" /\ pc = "returned") =>
        \A k \in 1..6 :
            Cardinality(Occurrences(k)) >= 2 =>
                /\ Offset(k) = SetMax(Occurrences(k))
                /\ Offset(k) # SetMin(Occurrences(k))

\* C8's case: parse_lid has returned on a file that names a section twice.
C8_Witness ==
    /\ op = "parse_lid" /\ pc = "returned"
    /\ \E k \in 1..6 : Cardinality(Occurrences(k)) >= 2

\* C10 as stated: when some line has the keyword of section k as its first
\* token, at any index, the extractor of k prints no warning and returns the
\* non-blank lines after the recorded keyword line up to the next boundary.
C10_PresentNeverAbsent ==
    \A k \in 1..6 :
        (Extracted(k) /\ Occurrences(k) # {}) =>
            /\ warning = <<>>
            /\ data = RowsFrom(SetMax(Occurrences(k)) + 1,
                               IF LaterOffsets(k) = {} THEN Len(lines)
                               ELSE SetMin(LaterOffsets(k)))

-----------------------------------------------------------------------------
(* The header reader (specification SpecHeader).                           *)

\* The rules of the header reader in their order of priority, on the tokens t.
CountRule(t) == Len(t) >= 2 /\ t[2] \in {"atoms", "bonds", "angles", "dihedrals", "impropers"}
TypeRule(t) ==
    /\ ~CountRule(t)
    /\ Len(t) >= 3 /\ t[2] \in {"atom", "bond", "angle", "dihedral", "improper"}
BoxRule(t) ==
    /\ ~CountRule(t) /\ ~TypeRule(t)
    /\ Len(t) >= 4 /\ t[3] \in {"xlo", "xhi", "ylo", "yhi", "zlo", "zhi"}
StopRule(t) ==
    /\ ~CountRule(t) /\ ~TypeRule(t) /\ ~BoxRule(t)
    /\ Len(t) >= 1 /\ t[1] \in {"Masses", "Atoms", "Bonds", "Angles", "Dihedrals", "Impropers"}

\* The first token of t is a section keyword.
KeywordFirst(t) ==
    Len(t) >= 1 /\ t[1] \in {"Masses", "Atoms", "Bonds", "Angles", "Dihedrals", "Impropers"}

\* The indices of the lines before the first line the stop rule takes.
Scanned ==
    {i \in 0..(Len(lines) - 1) : \A j \in 0..i : ~StopRule(TokensAt(j))}

\* The field a label names, given the last scanned line that writes it.
ExpectedCount(i) ==
    LET J == {j \in Scanned : CountRule(TokensAt(j)) /\ TokensAt(j)[2] = molecular_prop[i]}
    IN  IF J = {} THEN PyInt(0) ELSE PyStr(TokensAt(SetMax(J))[1])
ExpectedType(i) ==
    LET J == {j \in Scanned : TypeRule(TokensAt(j)) /\ TokensAt(j)[2] = types_prop[i]}
    IN  IF J = {} THEN PyInt(0) ELSE PyStr(TokensAt(SetMax(J))[1])

\* A box slot is written by a line labelled with it (the first token) and by
\* a line labelled with the slot before it (the second token).
ExpectedBox(i) ==
    LET J == {j \in Scanned :
                 /\ BoxRule(TokensAt(j))
                 /\ \/ TokensAt(j)[3] = boundary_prop[i]
                    \/ i > 1 /\ TokensAt(j)[3] = boundary_prop[i - 1]}
        t == TokensAt(SetMax(J))
    IN  IF J = {} THEN PyInt(0)
        ELSE IF t[3] = boundary_prop[i] THEN PyStr(t[1]) ELSE PyStr(t[2])

\* The summary the rules give.
SummaryByRules ==
    /\ molecular_data = [i \in 1..5 |-> ExpectedCount(i)]
    /\ types_data = [i \in 1..5 |-> ExpectedType(i)]
    /\ boundary_data = [i \in 1..6 |-> ExpectedBox(i)]

\* lid_header is over, by a return or by an exception.
HeaderOver == op = "lid_header" /\ pc \in {"returned", "raised"}

\* C5 as stated: on every file lid_header returns the summary the rules give:
\* each field holds, as text, the token of the last scanned line that
\* writes it, a box line writing its label's slot and the slot after it, and
\* a field no line writes holds the int 0.
C5_HeaderSummaryByRules ==
    HeaderOver => (pc = "returned" /\ SummaryByRules)

\* The part of C5 the code keeps: whenever lid_header returns, it returns
\* the summary the rules give.
HeaderSummaryWhenReturned ==
    (HeaderOver /\ pc = "returned") => SummaryByRules

\* C6 as stated: lid_header raises on no file, and returns 5 counts, 5 type
\* counts and 6 box slots.
C6_HeaderNeverRaises ==
    HeaderOver =>
        /\ pc # "raised"
        /\ Len(molecular_data) = 5 /\ Len(types_data) = 5 /\ Len(boundary_data) = 6

\* The summary lid_header builds.
summary == <<molecular_data, types_data, boundary_data>>

\* C9 as stated: once the loop is at or past a line whose first token is a
\* section keyword, no field of the summary changes any more.
C9_StopsAtFirstKeywordLine ==
    [][(pc = "scan" /\ \E j \in 0..Min2(hpos, Len(lines) - 1) : KeywordFirst(TokensAt(j)))
           => summary' = summary]_vars

\* C9 as amended: once the loop is at a line whose first token is a section
\* keyword and that matches none of the count, type and box rules, the
\* function returns there, and no field of the summary changes any more.
C9_StopsAtFirstStopLine ==
    [][(pc = "scan" /\ \E j \in 0..Min2(hpos, Len(lines) - 1) : StopRule(TokensAt(j)))
           => (pc' = "returned" /\ hpos' = hpos /\ summary' = summary)]_vars

\* C9's case: lid_header has returned at a stop line that a count line
\* follows, after a keyword line that the count rule took, and the count
\* line after the stop line has changed nothing.
C9_Witness ==
    /\ op = "lid_header" /\ pc = "returned"
    /\ hpos >= 1 /\ hpos + 1 < Len(lines)
    /\ KeywordFirst(TokensAt(hpos - 1)) /\ CountRule(TokensAt(hpos - 1))
    /\ StopRule(TokensAt(hpos))
    /\ CountRule(TokensAt(hpos + 1))
    /\ molecular_data[1] = PyStr(TokensAt(hpos - 1)[1])

====
